---- MODULE Spec2Model ----
(***************************************************************************)
(* Map rendering and interactive range calibration of gist-geckos:         *)
(*   gistPipeline/gistModules/gistPlot_gandalf.py  plot_maps, plot_line    *)
(*   gistPipeline/plotting/gistPlot_kin.py         plotMaps                *)
(*                                                                         *)
(* Reals are fixed-point numbers in hundredths (0.20 is 20, 1.0 is 100).   *)
(* A call stack of frames models the recursive self-invocation that drives *)
(* the accept/reject loop; pc is the position of the running (top) frame.  *)
(***************************************************************************)
EXTENDS Integers, Sequences, FiniteSets, TLC

VARIABLES
    renderer,   \* "line": plot_maps -> plot_line; "kin": plotMaps
    call,       \* INTERACTIVE and SAVE_AFTER_INTERACTIVE of the top-level call
    ppxf,       \* kin: TRUE iff the global name ppxf is bound when line 88 runs
    flag,       \* kin: 'KIN' or 'SFH'
    iterate,    \* line: the parameter iterate; kin: the loop variable of line 117
    data,       \* the four quantities handed to the renderer, one column each
    heap,       \* the vminmax arrays: the def-time default and the caller's
    vref,       \* which array the parameter vminmax is bound to
    stack,      \* the frames of plot_line / plotMaps, outermost first
    pc,         \* position of the top frame
    inp,        \* the string returned by the most recent input() call
    used,       \* the (vmin, vmax) each quantity was drawn with in the running pass
    shown,      \* the (vmin, vmax) of the figure most recently displayed by plt.show()
    prompts,    \* input() calls made since the most recent pass started
    written,    \* the files written by plt.savefig, in order
    err,        \* the exception that ended the process, "" if none
    figs,       \* the number of figures pyplot holds open
    linelist,   \* plot_maps: the data of each emission line, in the order of linelist
    line_idx,   \* plot_maps: the index into linelist of the running plot_line call
    calls,      \* the top-level calls of plot_maps / plotMaps this process has made
    dpc,        \* data stage: position in plot_maps / plotMaps before the rendering
    LEVEL,      \* plot_maps: 'BIN' or 'SPAXEL'
    BIN_ID,     \* the column BIN_ID of the table, one entry per sample
    raw,        \* the arrays read from the results file
    g,          \* the local arrays gandalf_* (plot_maps) / result (plotMaps)
    rpc,        \* rasterizer: position in lines 117-124 (plotMaps: 148-155)
    X,          \* the coordinates X of the samples
    Y,          \* the coordinates Y of the samples
    VAL,        \* val, the value of each sample
    pixelsize,  \* the pixel size
    npixels,    \* <<npixels_x, npixels_y>>
    ij,         \* <<i[s], j[s]>> of each sample s
    image       \* the cells of image that were assigned; every other cell is np.nan

svars == <<call, ppxf, flag, iterate, data, heap, vref, stack, pc, inp, used, shown,
           prompts, written, err, figs>>

pvars == <<linelist, line_idx, calls>>

dvars == <<dpc, LEVEL, BIN_ID, raw, g>>

rvars == <<rpc, X, Y, VAL, pixelsize, npixels, ij, image>>

vars == <<renderer, svars, dvars, rvars, pvars>>

----------------------------------------------------------------------------
(* Bounds of the model *)

\* Deepest recursion explored: passes of one session that are on the stack.
MaxDepth == 3

----------------------------------------------------------------------------
(* Numbers *)

\* np.nan, as a code outside the range of every modelled number.
NaN == -99999

\* contour_offset default 0.20
DefaultOffset == 20

Quantities == 0..3

IsNaN(x) == x = NaN

SetMin(S) == CHOOSE m \in S : \A x \in S : m <= x

SetMax(S) == CHOOSE m \in S : \A x \in S : m >= x

ValidOf(col) == {col[i] : i \in DOMAIN col} \ {NaN}

\* np.nanmin / np.nanmax: NaN when every entry is NaN
NanMin(col) == IF ValidOf(col) = {} THEN NaN ELSE SetMin(ValidOf(col))

NanMax(col) == IF ValidOf(col) = {} THEN NaN ELSE SetMax(ValidOf(col))

\* len(np.where(np.isnan(val) == True)[0]) == len(val)
AllNaN(col) == \A i \in DOMAIN col : IsNaN(col[i])

\* np.log10 on the modelled flux values; NaN for a negative or missing flux
Log10(x) ==
    CASE IsNaN(x) -> NaN
      [] x < 0 -> NaN
      [] x = 100 -> 0
      [] x = 1000 -> 100
      [] x = 10000 -> 200

----------------------------------------------------------------------------
(* Operator responses and their parsing *)

\* str.split(',') on the modelled responses
Split(s) ==
    CASE s = "" -> <<"">>
      [] s = "1,2" -> <<"1", "2">>
      [] s = "3,4" -> <<"3", "4">>
      [] s = "1,x" -> <<"1", "x">>
      [] s = "7" -> <<"7">>
      [] OTHER -> <<s>>

FloatLit == [s \in {"0.5", "1", "2", "3", "4", "7"} |->
    CASE s = "0.5" -> 50
      [] s = "1" -> 100
      [] s = "2" -> 200
      [] s = "3" -> 300
      [] s = "4" -> 400
      [] s = "7" -> 700]

\* float(s) raises ValueError unless s is a numeric literal
IsFloat(s) == s \in DOMAIN FloatLit

Float(s) == FloatLit[s]

OffsetInputs == {"", "0.5", "x"}

\* responses to the 'vmin,vmax' prompt; plotMaps asks four times per pass
RangeInputs(r) ==
    IF r = "line" THEN {"", "1,2", "3,4", "abc", "7", "1,x"}
    ELSE {"", "1,2", "abc", "7"}

DecideInputs == {"y", "Y", "yes", "YES", "n", "N", "no", "NO", "", "q"}

Unbound == "<unbound>"

----------------------------------------------------------------------------
(* Data handed to the renderers: data[k] is the column of quantity k *)

Column(c, k) == [i \in DOMAIN c |-> IF c[i] = NaN THEN NaN ELSE c[i] + 100 * k]

Table(c, fluxcol) == [k \in Quantities |-> IF k = 2 THEN fluxcol ELSE Column(c, k)]

Tables ==
    {Table(<<NaN, NaN>>, <<NaN, NaN>>),
     Table(<<300, NaN>>, <<1000, NaN>>),
     Table(<<-200, 500>>, <<100, 10000>>),
     Table(<<-200, 500>>, <<-100, NaN>>)}

\* np.zeros((4,2)), the default of the parameter vminmax
Zeros == [k \in Quantities |-> <<0, 0>>]

\* an array supplied by the caller, every slot different
CallerArrays == {[k \in Quantities |-> <<-100 * (k + 1), 100 * (k + 6)>>]}

----------------------------------------------------------------------------
(* Frames *)

NoPair == <<>>

NoUsed == [k \in Quantities |-> NoPair]

\* the parameters and the local contour_offset (<<>> until it is assigned)
Frame(interactive, replay, saved) ==
    [INTERACTIVE |-> interactive,
     SAVE_AFTER_INTERACTIVE |-> replay,
     contour_offset_saved |-> saved,
     contour_offset |-> <<>>]

Top == stack[Len(stack)]

SetTop(f) == [stack EXCEPT ![Len(stack)] = f]

vminmax == heap[vref]

\* val of lines 82-85 (plot_line) and of line 119 (plotMaps)
ValOf(r, k) ==
    IF r = "line" /\ k = 2 THEN [i \in DOMAIN data[k] |-> Log10(data[k][i])]
    ELSE data[k]

Raise(e) ==
    /\ pc' = "error"
    /\ err' = e

----------------------------------------------------------------------------
(* Contour offset: gandalf 74-79, kin 110-115 *)

\* the offset an empty response selects
OffsetOnEmpty(r, f) == IF r = "line" THEN DefaultOffset ELSE f.contour_offset_saved

\* the offset of a non-interactive pass
OffsetNonInteractive(r, f) == IF r = "line" THEN DefaultOffset ELSE f.contour_offset_saved

\* the contour_offset_saved handed to the recursive call
OffsetHandedOn(r, f) == IF r = "line" THEN f.contour_offset_saved ELSE f.contour_offset[1]

ContourOffset(next) ==
    \/ /\ Top.INTERACTIVE
       /\ prompts' = prompts + 1
       /\ \E s \in OffsetInputs :
            /\ inp' = s
            /\ \/ /\ s = ""
                  /\ stack' = SetTop([Top EXCEPT !.contour_offset = <<OffsetOnEmpty(renderer, Top)>>])
                  /\ pc' = next
                  /\ err' = err
               \/ /\ s # ""
                  /\ IsFloat(s)
                  /\ stack' = SetTop([Top EXCEPT !.contour_offset = <<Float(s)>>])
                  /\ pc' = next
                  /\ err' = err
               \/ /\ s # ""
                  /\ ~IsFloat(s)
                  /\ stack' = stack
                  /\ Raise("ValueError")
    \/ /\ ~Top.INTERACTIVE
       /\ stack' = SetTop([Top EXCEPT !.contour_offset = <<OffsetNonInteractive(renderer, Top)>>])
       /\ pc' = next
       /\ UNCHANGED <<inp, prompts, err>>

----------------------------------------------------------------------------
(* Range calibration: gandalf 90-114, kin 121-145 *)

\* (mutation of KeepPrevious: an empty response recomputes the range from the data)
KeepPreviousFromData(vm, k, val) == <<NanMin(val), NanMax(val)>>

\* empty response: keep the previously selected values
KeepPrevious(vm, k, val) == vm[k]

\* the pair parsed from an explicit response
ParsePair(s) == <<Float(Split(s)[1]), Float(Split(s)[2])>>

\* the array after an explicit pair was entered for quantity k
StorePair(vm, k, pair) == [vm EXCEPT ![k] = pair]

\* automatic mode
AutoRange(val) == <<NanMin(val), NanMax(val)>>

\* replay mode
ReplayRange(vm, k) == vm[k]

\* (mutation of NonInteractiveRange: the test of SAVE_AFTER_INTERACTIVE inverted)
NonInteractiveRangeInverted(f, vm, k, val) ==
    IF f.SAVE_AFTER_INTERACTIVE THEN AutoRange(val) ELSE ReplayRange(vm, k)

NonInteractiveRange(f, vm, k, val) ==
    IF f.SAVE_AFTER_INTERACTIVE THEN ReplayRange(vm, k) ELSE AutoRange(val)

Calibrate(k, val, next) ==
    \/ /\ Top.INTERACTIVE
       /\ prompts' = prompts + 1
       /\ \E s \in RangeInputs(renderer) :
            /\ inp' = s
            /\ \/ /\ s = ""
                  /\ used' = [used EXCEPT ![k] = KeepPrevious(vminmax, k, val)]
                  /\ heap' = heap
                  /\ pc' = next
                  /\ err' = err
               \/ /\ s # ""
                  /\ IsFloat(Split(s)[1])
                  /\ Len(Split(s)) >= 2
                  /\ IsFloat(Split(s)[2])
                  /\ used' = [used EXCEPT ![k] = ParsePair(s)]
                  /\ heap' = [heap EXCEPT ![vref] = StorePair(@, k, ParsePair(s))]
                  /\ pc' = next
                  /\ err' = err
               \/ /\ s # ""
                  /\ ~IsFloat(Split(s)[1])
                  /\ UNCHANGED <<used, heap>>
                  /\ Raise("ValueError")
               \/ /\ s # ""
                  /\ IsFloat(Split(s)[1])
                  /\ Len(Split(s)) < 2
                  /\ UNCHANGED <<used, heap>>
                  /\ Raise("IndexError")
               \/ /\ s # ""
                  /\ IsFloat(Split(s)[1])
                  /\ Len(Split(s)) >= 2
                  /\ ~IsFloat(Split(s)[2])
                  /\ UNCHANGED <<used, heap>>
                  /\ Raise("ValueError")
    \/ /\ ~Top.INTERACTIVE
       /\ used' = [used EXCEPT ![k] = NonInteractiveRange(Top, vminmax, k, val)]
       /\ pc' = next
       /\ UNCHANGED <<heap, inp, prompts, err>>

----------------------------------------------------------------------------
(* Accept / reject: gandalf 187-211, kin 210-227 *)

IsAccept(s) == s \in {"y", "Y", "yes", "YES"}

IsReject(s) == s \in {"n", "N", "no", "NO"}

\* (mutation of SavePass: the accept branch forgets SAVE_AFTER_INTERACTIVE)
SavePassAutomatic(r, f) == Frame(FALSE, FALSE, OffsetHandedOn(r, f))

\* the pass started on accept: INTERACTIVE False, SAVE_AFTER_INTERACTIVE True
SavePass(r, f) == Frame(FALSE, TRUE, OffsetHandedOn(r, f))

\* the pass started on reject and on any other response
RecalibrationPass(r, f) == Frame(TRUE, FALSE, OffsetHandedOn(r, f))

\* whether the pass shows a preview and asks (else it saves)
ShowsPreview(f) == f.INTERACTIVE

\* fig = plt.figure(...): one more open figure
OpenFigure(n) == n + 1

\* plot_line after plt.savefig and at return(None): no plt.close is called
LeaveFigure(n) == n

\* plt.show(): returns at once under a non-interactive backend, and otherwise when
\* the operator has closed every window, which removes the figures from pyplot
AfterShow(n) == {n, 0}

\* plt.close(): the current figure is closed, if there is one
CloseFigure(n) == IF n > 0 THEN n - 1 ELSE 0

\* plt.show(), the prompt, and the recursive call
Decide(entry) ==
    /\ pc = "decide"
    /\ Len(stack) < MaxDepth
    /\ shown' = used
    /\ \E s \in DecideInputs :
         /\ inp' = s
         /\ \/ /\ IsAccept(s)
               /\ stack' = Append(stack, SavePass(renderer, Top))
            \/ /\ ~IsAccept(s)
               /\ IsReject(s)
               /\ stack' = Append(stack, RecalibrationPass(renderer, Top))
            \/ /\ ~IsAccept(s)
               /\ ~IsReject(s)
               /\ stack' = Append(stack, RecalibrationPass(renderer, Top))
    /\ pc' = entry
    /\ used' = NoUsed
    /\ prompts' = 0
    /\ UNCHANGED <<pvars, rvars, dvars, renderer, call, ppxf, flag, data, heap, vref, written, err>>

----------------------------------------------------------------------------
(* plot_line *)

LineFile == <<"gandalf", line_idx, iterate>>

\* lines 68-79
LineOffset ==
    /\ renderer = "line"
    /\ pc = "offset"
    /\ ContourOffset("select")
    /\ UNCHANGED <<pvars, rvars, dvars, renderer, call, ppxf, flag, iterate, data, heap, vref, used, shown, written>>
    /\ figs' = OpenFigure(figs)

\* lines 82-88
LineSelect ==
    /\ renderer = "line"
    /\ pc = "select"
    /\ pc' = IF AllNaN(ValOf("line", iterate)) THEN "ret" ELSE "range"
    /\ UNCHANGED <<pvars, rvars, dvars, renderer, call, ppxf, flag, iterate, data, heap, vref, stack, inp, used, shown,
                   prompts, written, err>>
    /\ figs' = LeaveFigure(figs)

\* lines 90-185
LineRange ==
    /\ renderer = "line"
    /\ pc = "range"
    /\ Calibrate(iterate, ValOf("line", iterate), IF ShowsPreview(Top) THEN "decide" ELSE "save")
    /\ UNCHANGED <<pvars, rvars, dvars, renderer, call, ppxf, flag, iterate, data, vref, stack, shown, written>>
    /\ UNCHANGED figs

\* lines 187-211
LineDecide ==
    /\ renderer = "line"
    /\ Decide("offset")
    /\ UNCHANGED iterate
    /\ \E n \in AfterShow(figs) : figs' = CloseFigure(n)

\* lines 212-214
LineSave ==
    /\ renderer = "line"
    /\ pc = "save"
    /\ written' = Append(written, LineFile)
    /\ pc' = "ret"
    /\ UNCHANGED <<pvars, rvars, dvars, renderer, call, ppxf, flag, iterate, data, heap, vref, stack, inp, used, shown,
                   prompts, err>>
    /\ figs' = LeaveFigure(figs)

----------------------------------------------------------------------------
(* plotMaps *)

KinFile == <<IF flag = "KIN" THEN "kin" ELSE "sfh-kin", 0>>

\* lines 61-102: hasattr(ppxf, 'H3') raises NameError when ppxf is not bound
KinRead ==
    /\ renderer = "kin"
    /\ pc = "read"
    /\ IF ppxf THEN pc' = "offset" /\ err' = err ELSE Raise("NameError")
    /\ UNCHANGED <<pvars, rvars, dvars, renderer, call, ppxf, flag, iterate, data, heap, vref, stack, inp, used, shown,
                   prompts, written>>
    /\ UNCHANGED figs

\* lines 104-115
KinOffset ==
    /\ renderer = "kin"
    /\ pc = "offset"
    /\ ContourOffset("range")
    /\ iterate' = 0
    /\ UNCHANGED <<pvars, rvars, dvars, renderer, call, ppxf, flag, data, heap, vref, used, shown, written>>
    /\ figs' = OpenFigure(figs)

\* lines 117-174, one iteration of the loop; 176-208 after the last
KinRange ==
    /\ renderer = "kin"
    /\ pc = "range"
    /\ Calibrate(iterate, ValOf("kin", iterate),
                 IF iterate < 3 THEN "range" ELSE IF ShowsPreview(Top) THEN "decide" ELSE "save")
    /\ iterate' = IF iterate < 3 /\ pc' # "error" THEN iterate + 1 ELSE iterate
    /\ UNCHANGED <<pvars, rvars, dvars, renderer, call, ppxf, flag, data, vref, stack, shown, written>>
    /\ UNCHANGED figs

\* lines 210-227
KinDecide ==
    /\ renderer = "kin"
    /\ Decide("read")
    /\ UNCHANGED iterate
    /\ \E n \in AfterShow(figs) : figs' = n

\* lines 229-234
KinSave ==
    /\ renderer = "kin"
    /\ pc = "save"
    /\ written' = Append(written, KinFile)
    /\ pc' = "close"
    /\ UNCHANGED <<pvars, rvars, dvars, renderer, call, ppxf, flag, iterate, data, heap, vref, stack, inp, used, shown,
                   prompts, err>>
    /\ UNCHANGED figs

\* lines 236-237
KinClose ==
    /\ renderer = "kin"
    /\ pc = "close"
    /\ pc' = "ret"
    /\ UNCHANGED <<pvars, rvars, dvars, renderer, call, ppxf, flag, iterate, data, heap, vref, stack, inp, used, shown,
                   prompts, written, err>>
    /\ figs' = CloseFigure(figs)

----------------------------------------------------------------------------
(* Return of a frame to its caller *)

\* (mutation of AfterCall: savefig placed after the if/else, so a resumed pass saves)
AfterCallSaves(r) == "save"

\* where the caller resumes: plot_line ends after the call, plotMaps at line 236
AfterCall(r) == IF r = "line" THEN "ret" ELSE "close"

Return ==
    /\ pc = "ret"
    /\ stack' = SubSeq(stack, 1, Len(stack) - 1)
    /\ pc' = IF Len(stack) = 1 THEN "done" ELSE AfterCall(renderer)
    /\ UNCHANGED <<pvars, rvars, dvars, renderer, call, ppxf, flag, iterate, data, heap, vref, inp, used, shown,
                   prompts, written, err>>
    /\ UNCHANGED figs

----------------------------------------------------------------------------
(* The session: one top-level call of plot_maps (one line, one quantity) or  *)
(* of plotMaps                                                               *)

\* (INTERACTIVE, SAVE_AFTER_INTERACTIVE) of the top-level call
Modes == {<<TRUE, FALSE>>, <<FALSE, FALSE>>, <<FALSE, TRUE>>}

Init ==
    /\ renderer \in {"line", "kin"}
    /\ ppxf \in (IF renderer = "kin" THEN BOOLEAN ELSE {FALSE})
    /\ flag \in (IF renderer = "kin" THEN {"KIN", "SFH"} ELSE {""})
    /\ iterate \in (IF renderer = "line" THEN Quantities ELSE {0})
    /\ data \in Tables
    /\ vref \in {"dflt", "caller"}
    /\ heap \in {[dflt |-> Zeros, caller |-> c] :
                    c \in (IF vref = "caller" THEN CallerArrays ELSE {Zeros})}
    /\ call \in Modes
    /\ stack = <<Frame(call[1], call[2], DefaultOffset)>>
    /\ pc = IF renderer = "line" THEN "offset" ELSE "read"
    /\ inp = Unbound
    /\ used = NoUsed
    /\ shown = NoUsed
    /\ prompts = 0
    /\ written = <<>>
    /\ err = ""
    /\ figs = 0
    /\ linelist = <<data>>
    /\ line_idx = 0
    /\ calls = 1
    /\ dpc = "idle"
    /\ LEVEL = ""
    /\ BIN_ID = <<>>
    /\ raw = <<>>
    /\ g = <<>>
    /\ rpc = "idle"
    /\ X = <<>>
    /\ Y = <<>>
    /\ VAL = <<>>
    /\ pixelsize = 0
    /\ npixels = <<>>
    /\ ij = <<>>
    /\ image = <<>>

Next ==
    \/ LineOffset
    \/ LineSelect
    \/ LineRange
    \/ LineDecide
    \/ LineSave
    \/ KinRead
    \/ KinOffset
    \/ KinRange
    \/ KinDecide
    \/ KinSave
    \/ KinClose
    \/ Return

Spec == Init /\ [][Next]_vars

----------------------------------------------------------------------------
(* Data stage of plot_maps (lines 222-297) and of plotMaps (lines 64-97):  *)
(* bin expansion, quality filter, recentring of the velocity.  A matrix is *)
(* a sequence of rows, m[r][l]; the data stage of plotMaps is modelled as  *)
(* the code after line 89.                                                 *)

\* Samples in the table.
NSamples == 3

\* Emission-line columns of the gandalf arrays.
NLines == 2

\* AoNThreshold=4
AoNThreshold == 400

\* the value -1 that marks an invalid fit
Sentinel == -100

Abs(x) == IF x < 0 THEN -x ELSE x

RECURSIVE SortedSeqOf(_)
\* the elements of a set in increasing order
SortedSeqOf(S) == IF S = {} THEN <<>> ELSE <<SetMin(S)>> \o SortedSeqOf(S \ {SetMin(S)})

\* np.unique(np.abs(ids))
UniqueAbs(ids) == SortedSeqOf({Abs(ids[i]) : i \in DOMAIN ids})

NaNRow(w) == [l \in 1..w |-> NaN]

\* (mutation of BinMatches: the bin id compared without np.abs)
BinMatchesSigned(u, b) == u = b

\* ubins[i] == np.abs(binNum_long)
BinMatches(u, b) == u = Abs(b)

RECURSIVE ExpandFrom(_, _, _, _, _)
\* the loop of gandalf 257-263 / kin 93-95 from row i of ubins on
ExpandFrom(long, compressed, ubins, binNum, i) ==
    IF i > Len(ubins) THEN long
    ELSE ExpandFrom([s \in DOMAIN long |->
                        IF BinMatches(ubins[i], binNum[s]) THEN compressed[i] ELSE long[s]],
                    compressed, ubins, binNum, i + 1)

\* the long version of one compressed array of w columns
Expand(compressed, ubins, binNum, w) ==
    ExpandFrom([s \in 1..Len(binNum) |-> NaNRow(w)], compressed, ubins, binNum, 1)

\* gandalf_AoN[:,i] < AoNThreshold; a comparison with NaN is False
BelowThreshold(a) == a # NaN /\ a < AoNThreshold

\* lines 284-290 on one array
ApplyAoN(q, aon) ==
    [r \in DOMAIN q |-> [l \in DOMAIN q[r] |-> IF BelowThreshold(aon[r][l]) THEN NaN ELSE q[r][l]]]

\* np.where(q == -1)[0]: the row indices of the entries equal to the sentinel
SentinelRows(q) == {r \in DOMAIN q : \E l \in DOMAIN q[r] : q[r][l] = Sentinel}

\* q[ np.where(q == -1)[0] ] = np.nan: every listed row is set to NaN as a whole
MaskSentinel(q) ==
    [r \in DOMAIN q |-> IF r \in SentinelRows(q) THEN NaNRow(Len(q[r])) ELSE q[r]]

RECURSIVE Flatten(_)
Flatten(m) == IF m = <<>> THEN <<>> ELSE Head(m) \o Flatten(Tail(m))

RECURSIVE Sorted(_)
\* the entries of a sequence in increasing order, repetitions kept
Sorted(s) ==
    IF s = <<>> THEN <<>>
    ELSE LET lo == SetMin({s[i] : i \in DOMAIN s})
             at == CHOOSE i \in DOMAIN s : s[i] = lo
         IN  <<lo>> \o Sorted(SubSeq(s, 1, at - 1) \o SubSeq(s, at + 1, Len(s)))

\* np.nanmedian of a sequence: NaN when nothing is valid
NanMedian(s) ==
    LET v == Sorted(SelectSeq(s, LAMBDA x : x # NaN))
        n == Len(v)
    IN  IF n = 0 THEN NaN
        ELSE IF n % 2 = 1 THEN v[(n + 1) \div 2]
        ELSE (v[n \div 2] + v[n \div 2 + 1]) \div 2

Minus(x, m) == IF x = NaN \/ m = NaN THEN NaN ELSE x - m

\* gandalf_Vel - np.nanmedian(gandalf_Vel): one median over the whole array
RecentreVel(vel) ==
    [r \in DOMAIN vel |-> [l \in DOMAIN vel[r] |-> Minus(vel[r][l], NanMedian(Flatten(vel)))]]

\* result[:,0] - np.nanmedian(result[:,0])
RecentreColumn0(res) ==
    [r \in DOMAIN res |->
        [c \in DOMAIN res[r] |->
            IF c = 1 THEN Minus(res[r][1], NanMedian([x \in DOMAIN res |-> res[x][1]]))
            ELSE res[r][c]]]

GQuantities == {"Flux", "Ampl", "Vel", "Sigma"}

GArrays == GQuantities \cup {"AoN"}

\* binNum_long of plotMaps: BIN_ID[idx_inside], the samples with BIN_ID >= 0
InsideBins(ids) == SelectSeq(ids, LAMBDA b : b >= 0)

\* lines 250-274
GExpand ==
    /\ renderer = "line"
    /\ dpc = "read"
    /\ g' = IF LEVEL = "BIN"
            THEN [q \in GArrays |-> Expand(raw[q], UniqueAbs(BIN_ID), BIN_ID, NLines)]
            ELSE raw
    /\ dpc' = "long"
    /\ UNCHANGED <<pvars, rvars, renderer, svars, LEVEL, BIN_ID, raw>>

\* lines 283-290
GThreshold ==
    /\ renderer = "line"
    /\ dpc = "long"
    /\ g' = [q \in GArrays |-> ApplyAoN(g[q], g["AoN"])]
    /\ dpc' = "aon"
    /\ UNCHANGED <<pvars, rvars, renderer, svars, LEVEL, BIN_ID, raw>>

\* lines 292-295
GSentinel ==
    /\ renderer = "line"
    /\ dpc = "aon"
    /\ g' = [q \in GArrays |-> IF q \in GQuantities THEN MaskSentinel(g[q]) ELSE g[q]]
    /\ dpc' = "filtered"
    /\ UNCHANGED <<pvars, rvars, renderer, svars, LEVEL, BIN_ID, raw>>

\* line 297
GRecentre ==
    /\ renderer = "line"
    /\ dpc = "filtered"
    /\ g' = [g EXCEPT !["Vel"] = RecentreVel(@)]
    /\ dpc' = "ready"
    /\ UNCHANGED <<pvars, rvars, renderer, svars, LEVEL, BIN_ID, raw>>

\* lines 85-96: hasattr(ppxf, ...) before the expansion loop
KExpand ==
    /\ renderer = "kin"
    /\ dpc = "read"
    /\ IF ppxf
       THEN /\ g' = Expand(raw, UniqueAbs(BIN_ID), InsideBins(BIN_ID), 4)
            /\ dpc' = "long"
            /\ err' = err
       ELSE /\ g' = g
            /\ dpc' = "error"
            /\ err' = "NameError"
    /\ UNCHANGED <<pvars, rvars, renderer, call, ppxf, flag, iterate, data, heap, vref, stack, pc, inp, used,
                   shown, prompts, written, figs, LEVEL, BIN_ID, raw>>

\* line 97
KRecentre ==
    /\ renderer = "kin"
    /\ dpc = "long"
    /\ g' = RecentreColumn0(g)
    /\ dpc' = "ready"
    /\ UNCHANGED <<pvars, rvars, renderer, svars, LEVEL, BIN_ID, raw>>

\* the value of quantity q in row r and column l of the results file
FitValue(q, r, l) ==
    200 * (3 * r + l) + (CASE q = "Flux" -> 0 [] q = "Ampl" -> 10000 [] q = "Vel" -> -1800
                           [] q = "Sigma" -> 20000)

\* the columns V, SIGMA, H3, H4 of the kinematics file
KinValue(r, c) == 200 * (3 * r + c) - 1800

\* the gandalf arrays: AoN as given, the sentinel in the cells of sent
GandalfRaw(rows, aon, sent) ==
    [q \in GArrays |->
        IF q = "AoN" THEN aon
        ELSE [r \in 1..rows |-> [l \in 1..NLines |->
                IF <<r, l>> \in sent THEN Sentinel ELSE FitValue(q, r, l)]]]

BinIds == {-1, 1, 2}

KinBinIds == {-1, 0, 1}

\* rows of the results file: one per unique bin, or one per spaxel
RawRows(level, ids) == IF level = "BIN" THEN Len(UniqueAbs(ids)) ELSE Len(ids)

InitData ==
    /\ renderer \in {"line", "kin"}
    /\ LEVEL \in (IF renderer = "line" THEN {"BIN", "SPAXEL"} ELSE {"BIN"})
    /\ BIN_ID \in (IF renderer = "kin" THEN [1..NSamples -> KinBinIds]
                   ELSE IF LEVEL = "BIN" THEN [1..NSamples -> BinIds]
                   ELSE {[s \in 1..NSamples |-> s]})
    /\ raw \in (IF renderer = "line"
                THEN {GandalfRaw(RawRows(LEVEL, BIN_ID), aon, sent) :
                        aon \in [1..RawRows(LEVEL, BIN_ID) -> [1..NLines -> {300, 500}]],
                        sent \in {c \in SUBSET ((1..RawRows(LEVEL, BIN_ID)) \X (1..NLines)) :
                                    Cardinality(c) <= 1}}
                ELSE {[r \in 1..RawRows("BIN", BIN_ID) |-> [c \in 1..4 |-> KinValue(r, c)]]})
    /\ g = <<>>
    /\ dpc = "read"
    /\ call = <<FALSE, FALSE>>
    /\ ppxf \in (IF renderer = "kin" THEN BOOLEAN ELSE {FALSE})
    /\ flag = ""
    /\ iterate = 0
    /\ data = <<>>
    /\ heap = <<>>
    /\ vref = ""
    /\ stack = <<>>
    /\ pc = "idle"
    /\ inp = Unbound
    /\ used = NoUsed
    /\ shown = NoUsed
    /\ prompts = 0
    /\ written = <<>>
    /\ err = ""
    /\ figs = 0
    /\ linelist = <<>>
    /\ line_idx = 0
    /\ calls = 1
    /\ rpc = "idle"
    /\ X = <<>>
    /\ Y = <<>>
    /\ VAL = <<>>
    /\ pixelsize = 0
    /\ npixels = <<>>
    /\ ij = <<>>
    /\ image = <<>>

NextData ==
    \/ GExpand
    \/ GThreshold
    \/ GSentinel
    \/ GRecentre
    \/ KExpand
    \/ KRecentre

SpecData == InitData /\ [][NextData]_vars

----------------------------------------------------------------------------
(* Rasterizer: gandalf 116-124, kin 147-155 *)

\* Most samples of one rasterization.
NPoints == 2

\* the margin of 6 around the coordinate extent
Margin == 600

\* np.round(n / d) for d > 0: to the nearest integer, a tie to the even one
Round(n, d) ==
    LET q == n \div d
        r == n % d
    IN  IF 2 * r < d THEN q
        ELSE IF 2 * r > d THEN q + 1
        ELSE IF q % 2 = 0 THEN q ELSE q + 1

SeqMin(s) == CHOOSE m \in {s[n] : n \in DOMAIN s} : \A n \in DOMAIN s : m <= s[n]

SeqMax(s) == CHOOSE m \in {s[n] : n \in DOMAIN s} : \A n \in DOMAIN s : m >= s[n]

\* xmin = np.nanmin(X)-6
GridMin(c) == SeqMin(c) - Margin

\* xmax = np.nanmax(X)+6
GridMax(c) == SeqMax(c) + Margin

\* (mutation of NPixels: the + 1 dropped)
NPixelsNoPlusOne(c, P) == Round(GridMax(c) - GridMin(c), P)

\* npixels_x = int(np.round((xmax - xmin)/pixelsize) + 1)
NPixels(c, P) == Round(GridMax(c) - GridMin(c), P) + 1

\* i = np.array(np.round((X - xmin)/pixelsize), dtype=np.int)
PixelIndex(c, P) == [s \in DOMAIN c |-> Round(c[s] - GridMin(c), P)]

\* an index numpy accepts on an axis of length n: -n <= k < n
IndexInBounds(k, n) == -n <= k /\ k < n

\* the cell an accepted index addresses: a negative index counts from the end
Cell(k, n) == IF k < 0 THEN k + n ELSE k

\* image[i,j] = val: of the samples that address one cell the last one wins
Assign(idx, shape, v) ==
    LET cellOf(s) == <<Cell(idx[s][1], shape[1]), Cell(idx[s][2], shape[2])>>
        cells == {cellOf(s) : s \in DOMAIN idx}
        last(c) == CHOOSE s \in DOMAIN idx :
                      /\ cellOf(s) = c
                      /\ \A s2 \in DOMAIN idx : cellOf(s2) = c => s2 <= s
    IN  [c \in cells |-> v[last(c)]]

\* lines 117-120
RGrid ==
    /\ rpc = "start"
    /\ npixels' = <<NPixels(X, pixelsize), NPixels(Y, pixelsize)>>
    /\ rpc' = "grid"
    /\ UNCHANGED <<pvars, renderer, svars, dvars, X, Y, VAL, pixelsize, ij, image>>

\* lines 121-122
RIndex ==
    /\ rpc = "grid"
    /\ ij' = [s \in DOMAIN X |-> <<PixelIndex(X, pixelsize)[s], PixelIndex(Y, pixelsize)[s]>>]
    /\ rpc' = "indexed"
    /\ UNCHANGED <<pvars, renderer, svars, dvars, X, Y, VAL, pixelsize, npixels, image>>

\* lines 123-124: an index outside the image raises IndexError
RFill ==
    /\ rpc = "indexed"
    /\ IF \A s \in DOMAIN ij : /\ IndexInBounds(ij[s][1], npixels[1])
                               /\ IndexInBounds(ij[s][2], npixels[2])
       THEN /\ image' = Assign(ij, npixels, VAL)
            /\ rpc' = "filled"
       ELSE /\ image' = image
            /\ rpc' = "error"
    /\ UNCHANGED <<pvars, renderer, svars, dvars, X, Y, VAL, pixelsize, npixels, ij>>

XCoords == {-150, 0, 50}

YCoords == {0, 250}

PixelSizes == {20, 100, 400, 800, 2500}

Values == {NaN, 700}

InitRaster ==
    /\ renderer \in {"line", "kin"}
    /\ \E n \in 1..NPoints :
         /\ X \in [1..n -> XCoords]
         /\ Y \in [1..n -> YCoords]
         /\ VAL \in [1..n -> Values]
    /\ renderer = "line" => \E s \in DOMAIN VAL : VAL[s] # NaN
    /\ pixelsize \in PixelSizes
    /\ npixels = <<>>
    /\ ij = <<>>
    /\ image = <<>>
    /\ rpc = "start"
    /\ dpc = "idle"
    /\ LEVEL = ""
    /\ BIN_ID = <<>>
    /\ raw = <<>>
    /\ g = <<>>
    /\ call = <<FALSE, FALSE>>
    /\ ppxf = FALSE
    /\ flag = ""
    /\ iterate = 0
    /\ data = <<>>
    /\ heap = <<>>
    /\ vref = ""
    /\ stack = <<>>
    /\ pc = "idle"
    /\ inp = Unbound
    /\ used = NoUsed
    /\ shown = NoUsed
    /\ prompts = 0
    /\ written = <<>>
    /\ err = ""
    /\ figs = 0
    /\ linelist = <<>>
    /\ line_idx = 0
    /\ calls = 1

NextRaster ==
    \/ RGrid
    \/ RIndex
    \/ RFill

SpecRaster == InitRaster /\ [][NextRaster]_vars

----------------------------------------------------------------------------
(* plot_maps called from the pipeline: gandalf 315-321 *)

\* the call of plot_line at lines 320-321
PipelineCall(l, k) ==
    /\ line_idx' = l
    /\ iterate' = k
    /\ data' = linelist[l + 1]
    /\ stack' = <<Frame(call[1], call[2], DefaultOffset)>>
    /\ pc' = "offset"
    /\ used' = NoUsed
    /\ prompts' = 0

\* lines 317-321: the next quantity, then the next line, then the end of plot_maps
PipelineLoop ==
    /\ pc = "done"
    /\ IF iterate < 3
       THEN PipelineCall(line_idx, iterate + 1)
       ELSE IF line_idx + 1 < Len(linelist)
       THEN PipelineCall(line_idx + 1, 0)
       ELSE /\ pc' = "finished"
            /\ UNCHANGED <<line_idx, iterate, data, stack, used, prompts>>
    /\ UNCHANGED <<rvars, dvars, renderer, call, ppxf, flag, heap, vref, inp, shown, written, err,
                   figs, linelist, calls>>

InitPipeline ==
    /\ renderer = "line"
    /\ ppxf = FALSE
    /\ flag = ""
    /\ linelist \in [1..NLines -> Tables]
    /\ line_idx = 0
    /\ calls = 1
    /\ iterate = 0
    /\ data = linelist[1]
    /\ vref = "dflt"
    /\ heap = [dflt |-> Zeros, caller |-> Zeros]
    /\ call = <<FALSE, FALSE>>
    /\ stack = <<Frame(call[1], call[2], DefaultOffset)>>
    /\ pc = "offset"
    /\ inp = Unbound
    /\ used = NoUsed
    /\ shown = NoUsed
    /\ prompts = 0
    /\ written = <<>>
    /\ err = ""
    /\ figs = 0
    /\ dpc = "idle"
    /\ LEVEL = ""
    /\ BIN_ID = <<>>
    /\ raw = <<>>
    /\ g = <<>>
    /\ rpc = "idle"
    /\ X = <<>>
    /\ Y = <<>>
    /\ VAL = <<>>
    /\ pixelsize = 0
    /\ npixels = <<>>
    /\ ij = <<>>
    /\ image = <<>>

NextPipeline ==
    \/ LineOffset
    \/ LineSelect
    \/ LineRange
    \/ LineSave
    \/ Return
    \/ PipelineLoop

SpecPipeline == InitPipeline /\ [][NextPipeline]_vars

----------------------------------------------------------------------------
(* One process that calls plot_maps / plotMaps more than once, vminmax omitted *)

\* Most top-level calls of one process.
MaxCalls == 2

\* vminmax=np.zeros((4,2)) is evaluated once, when the def statement runs:
\* a call that omits vminmax is bound to that one array, as earlier calls left it
DefaultArray(h) == h["dflt"]

\* a further top-level call with the same arguments, after the previous one returned
TopLevelCall ==
    /\ pc = "done"
    /\ calls < MaxCalls
    /\ calls' = calls + 1
    /\ vref' = "dflt"
    /\ heap' = [heap EXCEPT !["dflt"] = DefaultArray(heap)]
    /\ stack' = <<Frame(call[1], call[2], DefaultOffset)>>
    /\ pc' = IF renderer = "line" THEN "offset" ELSE "read"
    /\ inp' = Unbound
    /\ used' = NoUsed
    /\ shown' = NoUsed
    /\ prompts' = 0
    /\ iterate' = IF renderer = "line" THEN iterate ELSE 0
    /\ UNCHANGED <<rvars, dvars, renderer, call, ppxf, flag, data, written, err, figs,
                   linelist, line_idx>>

InitProcess ==
    /\ Init
    /\ call = <<TRUE, FALSE>>
    /\ vref = "dflt"
    /\ renderer = "kin" => ppxf /\ flag = "KIN"
    /\ ~AllNaN(data[0])

NextProcess ==
    \/ Next
    \/ TopLevelCall

SpecProcess == InitProcess /\ [][NextProcess]_vars

----------------------------------------------------------------------------
(* Properties of the interaction loop and of the range calibration *)

\* the quantities one pass draws: plot_line one, plotMaps all four
Rendered == IF renderer = "line" THEN {iterate} ELSE Quantities

\* the running pass was started by the accept branch of a preview
IsSavePassAfterAccept(s) ==
    /\ Len(s) >= 2
    /\ s[Len(s)].SAVE_AFTER_INTERACTIVE
    /\ ~s[Len(s)].INTERACTIVE

(* C1: an accept at DECIDE starts exactly one further pass, which runs with
   INTERACTIVE False and SAVE_AFTER_INTERACTIVE True, issues no prompt, draws
   every quantity with the pair of the preview just accepted and writes the
   file; no pass is started after it. *)
C1_AcceptStartsSavePass ==
    [][/\ (pc = "decide" /\ inp' \in {"y", "Y", "yes", "YES"}) =>
              /\ Len(stack') = Len(stack) + 1
              /\ ~stack'[Len(stack')].INTERACTIVE
              /\ stack'[Len(stack')].SAVE_AFTER_INTERACTIVE
              /\ shown' = used
       /\ IsSavePassAfterAccept(stack') =>
              /\ prompts' = 0
              /\ pc' # "error"
              /\ \A k \in Quantities : used'[k] # NoPair => used'[k] = shown'[k]
              /\ pc' \in {"save", "ret", "close"} =>
                     \A k \in Rendered : used'[k] # NoPair /\ used'[k] = shown'[k]
              /\ pc' \in {"ret", "close"} => Len(written') = 1
       /\ Len(stack') > Len(stack) =>
              /\ pc = "decide"
              /\ stack[Len(stack)].INTERACTIVE
              /\ written = <<>>
      ]_vars

C1_Witness ==
    /\ renderer = "line"
    /\ IsSavePassAfterAccept(stack)
    /\ pc = "ret"
    /\ Len(written) = 1
    /\ used[iterate] = <<300, 400>>
    /\ shown[iterate] = <<300, 400>>

(* C2: in an interactive session the file is written at most once, only by
   the pass an accept started, and never while a pass with INTERACTIVE True
   is running, the outer passes resumed after the recursive call included. *)
C2_WrittenOnceOnAccept ==
    [][call[1] =>
          /\ Len(written') <= 1
          /\ written' # written =>
                 /\ written = <<>>
                 /\ ~stack[Len(stack)].INTERACTIVE
                 /\ Len(stack) >= 2
                 /\ inp \in {"y", "Y", "yes", "YES"}
      ]_vars

C2_Witness ==
    /\ call[1]
    /\ Len(written) = 1
    /\ Len(stack) = 2
    /\ Top.INTERACTIVE
    /\ stack[1].INTERACTIVE
    /\ pc \in {"ret", "close"}

(* C3: the contour offset entered in an interactive pass is the offset the
   save pass after an accept draws with, and the offset a later pass keeps on
   an empty response to the offset prompt. *)
C3_OffsetCarried ==
    \A i \in 2..Len(stack) :
        (stack[i].contour_offset # <<>> /\ stack[i - 1].contour_offset # <<>>) =>
            /\ stack[i].SAVE_AFTER_INTERACTIVE /\ ~stack[i].INTERACTIVE =>
                   stack[i].contour_offset = stack[i - 1].contour_offset
            /\ (i = Len(stack) /\ stack[i].INTERACTIVE /\ inp = ""
                /\ pc = (IF renderer = "line" THEN "select" ELSE "range")
                /\ used = NoUsed) =>
                   stack[i].contour_offset = stack[i - 1].contour_offset

(* C4: an empty response to the 'vmin,vmax' prompt of quantity k draws with
   the pair stored in slot k before the prompt, whatever the data, and leaves
   every slot of the array unchanged. *)
C4_EmptyKeepsStored ==
    [][(pc = "range" /\ stack[Len(stack)].INTERACTIVE /\ inp' = "") =>
          /\ used'[iterate] = heap[vref][iterate]
          /\ heap' = heap
          /\ pc' # "error"
      ]_vars

C4_Witness ==
    /\ renderer = "line"
    /\ Len(stack) = 2
    /\ pc = "decide"
    /\ inp = ""
    /\ used[iterate] = <<300, 400>>
    /\ NanMin(ValOf("line", iterate)) # 300

(* C5: a non-interactive pass draws quantity k with the pair stored in slot k
   when SAVE_AFTER_INTERACTIVE is True, whatever the data, and with the
   (minimum, maximum) of the non-missing values of quantity k when it is
   False, whatever the array holds; the array is not modified. *)
C5_NonInteractiveRange ==
    [][(pc = "range" /\ ~stack[Len(stack)].INTERACTIVE) =>
          LET val == ValOf(renderer, iterate)
              valid == {val[i] : i \in DOMAIN val} \ {NaN}
              lo == used'[iterate][1]
              hi == used'[iterate][2]
          IN  /\ heap' = heap
              /\ stack[Len(stack)].SAVE_AFTER_INTERACTIVE =>
                     used'[iterate] = heap[vref][iterate]
              /\ (~stack[Len(stack)].SAVE_AFTER_INTERACTIVE /\ valid # {}) =>
                     /\ lo \in valid
                     /\ hi \in valid
                     /\ \A x \in valid : lo <= x /\ x <= hi
      ]_vars

C5_Witness ==
    /\ renderer = "line"
    /\ call = <<FALSE, FALSE>>
    /\ vref = "caller"
    /\ iterate = 2
    /\ pc = "save"
    /\ data[2] = <<1000, NaN>>
    /\ used[2] = <<100, 100>>

(* C6: at DECIDE every response other than 'y', 'Y', 'yes', 'YES' starts a
   pass with INTERACTIVE True and SAVE_AFTER_INTERACTIVE False whose state is
   the one of the rejected preview: the same array, whose slots hold the
   rejected ranges, and the contour offset the rejected preview drew with;
   nothing is written; the save position is reached only after an accept; and
   a further rejection is always possible. *)
C6_RejectRecalibrates ==
    /\ [][(pc = "decide" /\ inp' \notin {"y", "Y", "yes", "YES"}) =>
             /\ Len(stack') = Len(stack) + 1
             /\ stack'[Len(stack')].INTERACTIVE
             /\ ~stack'[Len(stack')].SAVE_AFTER_INTERACTIVE
             /\ SubSeq(stack', 1, Len(stack)) = stack
             /\ heap' = heap
             /\ vref' = vref
             /\ written' = written
             /\ \A k \in Rendered : heap'[vref'][k] = used[k] /\ shown'[k] = used[k]
             /\ <<stack'[Len(stack')].contour_offset_saved>> = stack[Len(stack)].contour_offset
         ]_vars
    /\ [](call[1] /\ pc = "save" => inp \in {"y", "Y", "yes", "YES"})
    /\ []((pc = "decide" /\ Len(stack) < MaxDepth) =>
             ENABLED ((LineDecide \/ KinDecide) /\ stack'[Len(stack')].INTERACTIVE))

(* C7: a malformed response to a numeric prompt does not end the session in
   an error state. *)
C7_MalformedRecoverable ==
    ~(pc = "error" /\ err \in {"ValueError", "IndexError"})

(* C8: a non-interactive invocation on a table in which every quantity has a
   non-missing value issues no prompt and ends having written its file. *)
C8_NonInteractiveWrites ==
    (/\ ~call[1]
     /\ \A k \in Quantities : ~AllNaN(ValOf(renderer, k))
     /\ pc \in {"done", "error"}) =>
        /\ pc = "done"
        /\ Len(written) = 1
        /\ prompts = 0

----------------------------------------------------------------------------
(* Properties of the data stage *)

\* the arrays the quality filter of plot_maps starts from
BeforeFilter ==
    IF LEVEL = "BIN"
    THEN [q \in GArrays |-> Expand(raw[q], UniqueAbs(BIN_ID), BIN_ID, NLines)]
    ELSE raw

(* C9: after the quality filter, for every quantity, line column and sample:
   an entry whose AoN is below the threshold is missing, and an entry whose
   AoN is at least the threshold and which is not the sentinel is unchanged. *)
C9_FilterPerEntry ==
    (renderer = "line" /\ dpc = "filtered") =>
        \A q \in GQuantities : \A i \in DOMAIN g[q] : \A l \in 1..NLines :
            LET aon == BeforeFilter["AoN"][i][l]
                before == BeforeFilter[q][i][l]
            IN  /\ (aon # NaN /\ aon < AoNThreshold) => g[q][i][l] = NaN
                /\ (aon # NaN /\ aon >= AoNThreshold /\ before # Sentinel) =>
                       g[q][i][l] = before

\* the per-sample bin ids S and the sorted unique absolute bin ids U
SampleBins == IF renderer = "kin" THEN InsideBins(BIN_ID) ELSE BIN_ID

AbsBinSet == {IF BIN_ID[i] < 0 THEN -BIN_ID[i] ELSE BIN_ID[i] : i \in DOMAIN BIN_ID}

SortedUnique ==
    CHOOSE u \in [1..Cardinality(AbsBinSet) -> AbsBinSet] :
        \A i, j \in DOMAIN u : i < j => u[i] < u[j]

\* the compressed and the expanded arrays, as one list per renderer
Compressed == IF renderer = "kin" THEN <<raw>> ELSE [n \in 1..5 |->
    raw[<<"Flux", "Ampl", "Vel", "Sigma", "AoN">>[n]]]

Expanded == IF renderer = "kin" THEN <<g>> ELSE [n \in 1..5 |->
    g[<<"Flux", "Ampl", "Vel", "Sigma", "AoN">>[n]]]

(* C10: after bin expansion every sample whose absolute bin id is in U holds,
   for every quantity, the compressed row at the index of that id in U, so
   samples sharing an absolute bin id hold identical rows; every other sample
   holds the missing marker; the compressed arrays are not modified. *)
C10_BinExpansion ==
    /\ []((dpc = "long" /\ (renderer = "kin" \/ LEVEL = "BIN")) =>
            \A n \in DOMAIN Expanded :
                /\ DOMAIN Expanded[n] = DOMAIN SampleBins
                /\ \A i \in DOMAIN SampleBins :
                     LET a == IF SampleBins[i] < 0 THEN -SampleBins[i] ELSE SampleBins[i]
                     IN  /\ \A j \in DOMAIN SortedUnique :
                               SortedUnique[j] = a => Expanded[n][i] = Compressed[n][j]
                         /\ a \notin AbsBinSet =>
                               \A c \in DOMAIN Expanded[n][i] : Expanded[n][i][c] = NaN
                         /\ \A i2 \in DOMAIN SampleBins :
                               (SampleBins[i2] = a \/ SampleBins[i2] = -a) =>
                                   Expanded[n][i2] = Expanded[n][i])
    /\ [][raw' = raw]_vars

C10_Witness ==
    /\ renderer = "line"
    /\ LEVEL = "BIN"
    /\ dpc = "long"
    /\ BIN_ID = <<-1, 2, 1>>
    /\ g["Vel"][1] = raw["Vel"][1]
    /\ g["Vel"][3] = raw["Vel"][1]
    /\ g["Vel"][2] = raw["Vel"][2]
    /\ raw["Vel"][1] # raw["Vel"][2]

----------------------------------------------------------------------------
(* Properties of the rasterizer *)

\* the cells of image that hold a number
NonMissingCells == {c \in DOMAIN image : image[c] # NaN}

\* k is (n / d) rounded to the nearest integer, a tie to the even neighbour
IsNearest(k, n, d) ==
    /\ 2 * (n - k * d) <= d
    /\ 2 * (k * d - n) <= d
    /\ (2 * (n - k * d) = d \/ 2 * (k * d - n) = d) => k % 2 = 0

(* C11: for every pixel size and every sample the indices i, j are the
   rounded (X - xmin)/P, (Y - ymin)/P and satisfy 0 <= i < npixels_x and
   0 <= j < npixels_y, so the assignment into the image neither fails nor
   wraps around; one sample with a value gives an image with exactly one
   non-missing cell, at the index of that sample. *)
C11_IndicesInImage ==
    /\ rpc # "error"
    /\ rpc \in {"indexed", "filled"} =>
         /\ IsNearest(npixels[1] - 1, (SeqMax(X) + 600) - (SeqMin(X) - 600), pixelsize)
         /\ IsNearest(npixels[2] - 1, (SeqMax(Y) + 600) - (SeqMin(Y) - 600), pixelsize)
         /\ \A s \in DOMAIN X :
              /\ IsNearest(ij[s][1], X[s] - (SeqMin(X) - 600), pixelsize)
              /\ IsNearest(ij[s][2], Y[s] - (SeqMin(Y) - 600), pixelsize)
              /\ 0 <= ij[s][1] /\ ij[s][1] < npixels[1]
              /\ 0 <= ij[s][2] /\ ij[s][2] < npixels[2]
    /\ rpc = "filled" =>
         /\ \A s \in DOMAIN X : VAL[s] # NaN => \E c \in DOMAIN image : c = ij[s]
         /\ (Len(X) = 1 /\ VAL[1] # NaN) =>
              /\ NonMissingCells = {ij[1]}
              /\ image[ij[1]] = VAL[1]

C11_Witness ==
    /\ rpc = "filled"
    /\ Len(X) = 1
    /\ pixelsize = 400
    /\ VAL[1] = 700
    /\ ij[1] = <<2, 2>>
    /\ npixels = <<4, 4>>
    /\ NonMissingCells = {<<2, 2>>}

----------------------------------------------------------------------------
(* Properties of the figures *)

(* C12: when every value of a quantity the call renders is missing, the call
   returns with no figure left open, without having computed a range for that
   quantity and without having written a file. *)
C12_AllMissingSkipped ==
    \A k \in Rendered :
        (pc = "done" /\ AllNaN(ValOf(renderer, k))) =>
            /\ figs = 0
            /\ used[k] = NoPair
            /\ written = <<>>

(* C13: in the automatic pipeline run of plot_maps at most one figure is open
   at every point, and none is open when plot_maps returns. *)
C13_OneFigureAtATime ==
    /\ figs <= 1
    /\ pc = "finished" => figs = 0

----------------------------------------------------------------------------
(* Properties of the stored ranges *)

(* C14: in the first pass of an interactive run started without a vminmax
   argument, the pair stored for quantity k when its prompt is issued, which
   the prompt offers as previously chosen and an empty response selects, is
   the (minimum, maximum) of the non-missing values of quantity k. *)
C14_FirstPassDefaultsFromData ==
    (/\ call[1]
     /\ vref = "dflt"
     /\ Len(stack) = 1
     /\ pc = "range"
     /\ ~AllNaN(ValOf(renderer, iterate))) =>
        LET col == ValOf(renderer, iterate)
            valid == {col[n] : n \in DOMAIN col} \ {NaN}
        IN  /\ heap[vref][iterate][1] \in valid
            /\ heap[vref][iterate][2] \in valid
            /\ \A x \in valid : heap[vref][iterate][1] <= x /\ x <= heap[vref][iterate][2]

----------------------------------------------------------------------------
(* Properties of the velocity recentring *)

\* the velocity map of line l (plotMaps: the stellar velocity, l = 1)
VelocityMap(arr, l) ==
    IF renderer = "kin" THEN [s \in DOMAIN arr |-> arr[s][1]]
    ELSE [s \in DOMAIN arr["Vel"] |-> arr["Vel"][s][l]]

\* c is a median of the non-missing entries of col: at most half of them lie
\* below c and at most half of them above
IsMedianOf(c, col) ==
    LET valid == {s \in DOMAIN col : col[s] # NaN}
    IN  /\ 2 * Cardinality({s \in valid : col[s] < c}) <= Cardinality(valid)
        /\ 2 * Cardinality({s \in valid : col[s] > c}) <= Cardinality(valid)

\* after is before with its own median subtracted, missing entries kept
RecentredOnOwnMedian(before, after) ==
    LET valid == {s \in DOMAIN before : before[s] # NaN}
    IN  /\ DOMAIN after = DOMAIN before
        /\ \A s \in DOMAIN before : (before[s] = NaN) <=> (after[s] = NaN)
        /\ valid # {} =>
             \E c \in {before[x] - after[x] : x \in valid} :
                /\ \A x \in valid : after[x] = before[x] - c
                /\ IsMedianOf(c, before)
                /\ IsMedianOf(0, after)

(* C15: the recentring step replaces every velocity map (each emission line
   of plot_maps, the stellar velocity of plotMaps) by itself minus the median
   of its own non-missing samples, so that the map has median 0; missing
   entries stay missing and no other quantity changes. *)
C15_RecentredPerMap ==
    [][(dpc' = "ready" /\ dpc # "ready") =>
          IF renderer = "kin"
          THEN /\ RecentredOnOwnMedian(VelocityMap(g, 1), VelocityMap(g', 1))
               /\ \A s \in DOMAIN g : \A c \in 2..4 : g'[s][c] = g[s][c]
          ELSE /\ \A l \in 1..NLines :
                    RecentredOnOwnMedian(VelocityMap(g, l), VelocityMap(g', l))
               /\ \A q \in GArrays \ {"Vel"} : g'[q] = g[q]
      ]_vars

----------------------------------------------------------------------------
(* Properties of the ownership of the stored ranges *)

(* C16: a top-level call that omits vminmax starts with the initial pairs,
   whatever the operator entered in earlier calls of the process; a call that
   omits vminmax modifies no array of the caller; and the steps of a
   recursive pass do not change the array the calling pass holds. *)
C16_RangeStateOwned ==
    /\ []((/\ vref = "dflt"
           /\ Len(stack) = 1
           /\ pc = (IF renderer = "line" THEN "offset" ELSE "read")) =>
              heap[vref] = [k \in 0..3 |-> <<0, 0>>])
    /\ [][vref = "dflt" => heap'["caller"] = heap["caller"]]_vars
    /\ [][(Len(stack) >= 2 /\ Len(stack') = Len(stack)) => heap'[vref] = heap[vref]]_vars

====
